---------------------------- MODULE Spec2Model ----------------------------
(***************************************************************************)
(* Client-side session / view-state coordination of the MediDoc SPA.       *)
(*                                                                         *)
(*   AuthContext.jsx     the session store (token, user, local storage)    *)
(*   OnePageApp (part_005) the view router, its effects and its handlers   *)
(*   Views (part_002)    UploadsView, HomeView, ChatView, EditMedicalView  *)
(*   api.js (part_006)   the API client                                    *)
(*                                                                         *)
(* The browser runs one callback at a time: every action below is one      *)
(* callback (a click handler up to its first await, the continuation of an *)
(* await, a page load) together with the React effects its state changes   *)
(* trigger.  The backend is the environment: every response is chosen      *)
(* nondeterministically from what the REST surface can answer.             *)
(***************************************************************************)
EXTENDS Naturals, Sequences, FiniteSets, Bags, TLC

VARIABLES
    \* ---- AuthProvider (AuthContext.jsx) and the browser's localStorage
    token,            \* useState token: Null or a bearer token
    user,             \* useState user: Null, or the user object given by its email ("" = no email)
    ls,               \* localStorage: [token, user, view], Absent = key not present
    loginReq,         \* the login() or register() call in flight: [pc, email, tok]
    \* ---- OnePageApp (part_005)
    view,             \* useState view
    busy,             \* useState busy
    uploadForm,       \* useState file, fileName: [file, fileName], file Null when none is chosen
    me,               \* useState me
    profile,          \* useState profile
    originalProfile,  \* useState originalProfile
    profileExists,    \* useState profileExists
    filesList,        \* useState filesList: set of rows [id, status]
    loadingProfile,   \* useState loadingProfile
    loads,            \* the running instances of the load effect's async load(): a bag of [pc, mounted, tok, usr, snap]
    saveReq,          \* the saveProfile() call in flight: [pc, tok]
    \* ---- the backend
    serverProfile,    \* the user's medical profile on the server, NoProfile when none
    serverFiles,      \* the files the backend has stored for the user: set of rows [id, status], status Deleted once deleted
    \* ---- history (observation only; read by no update, and by a guard only as a bound)
    lastOp,           \* the operation that acted last: "login" ("login-minimal" when its getMe rejected), "logout", "reload", else "other"
    lastCall,         \* the last authorized backend call issued: [bearer, session]
    lastSave,         \* what the Save in flight issued: [method, keys], and whether the server held a profile
    viewShown,        \* after a reload: the view shown just before it
    lastUi,           \* what the last step put before the user: [failed, shown, prompt, answer]
    editHist,         \* [fetched, edited]: the profile last returned by a profile fetch, and whether the edit form was typed into since it was entered
    \* ---- view-local state, lost when the view unmounts (part_002)
    chatView,         \* ChatView: [text, sending]
    uploadsView,      \* UploadsView: [reviewMap, retryBusy, busyMap, loadingMap] (the ids mapped to true), schedule, schedReq
    \* ---- chat (part_005 chatMessages, part_002 ChatView.send)
    chatMessages,     \* useState chatMessages: sequence of [role, content]
    chatReqs,         \* send() handlers awaiting POST /chat/: bag of [message, tok, mounted]
    chatHist,         \* history of this page: [sends, done, cleared, text, answer, escaped]
    \* ---- uploads list (part_002 UploadsView, part_005 refresh-files handler)
    fetches,          \* getFiles calls in flight outside load(): bag of [by, pc, tok, snap]
    rowOps,           \* row handlers in flight: bag of [kind, id, pc, tok, mounted, attached]
    deletedOk,        \* history: ids whose deleteFile has resolved
    \* ---- API client exercised on its own (part_006)
    apiAnswer,        \* the answer given to the function under test: [status, body]
    apiResult         \* what the function returned or threw

-----------------------------------------------------------------------------
(* Values *)

Null == "<null>"

Absent == "<absent>"

\* Bearer tokens the backend hands out (POST /auth/login -> access_token).
Tokens == {"t1", "t2"}

\* What the user types into the email box (canLogin needs it non-empty).
Emails == {"alice"}

\* User objects GET /auth/me can answer, given by their email field:
\* a full user, a user object without email, or a null body.
MeObjects == {"alice", "", Null}

ViewNames == {"home", "profile", "edit-medical", "uploads", "schedule", "chat", "upload"}

\* the views OnePageApp renders for an authenticated user
RenderedViews == {"home", "profile", "edit-medical", "uploads", "schedule", "chat"}

\* the views the load effect fetches for
LoadViews == {"profile", "uploads", "home"}

\* the fallback of the view's initial state
InitialView == "home"

\* the view the logout effect resets to
LogoutView == "upload"

\* the medical profile's fields (two of the ten free-text fields) and their values
Fields == {"allergies", "surgeries"}

FieldValues == {"", "x"}

Profiles == [Fields -> FieldValues]

defaultProfile == [k \in Fields |-> ""]

NoProfile == [k \in Fields |-> "none"]

\* the mark of a file the backend has deleted (its id is not handed out again)
Deleted == "<deleted>"

\* what GET /files/ answers when the backend has stored the rows sf
LiveFiles(sf) == {f \in sf : f.status # Deleted}

\* JavaScript truthiness of a string-or-null value
Truthy(x) == x # Null /\ x # Absent /\ x # ""

-----------------------------------------------------------------------------
(* Bounds *)

\* load() instances that may be running at once (one mounted, the others stale)
MaxLoads == 2

\* file ids the backend hands out
MaxFiles == 1

\* chat messages sent since the page was loaded
MaxSends == 2

\* row handlers (review, retry, delete) that may be in flight at once
MaxRowOps == 1

\* review handlers that may be in flight at once where only reviews are started
MaxReviews == 2

\* getFiles calls outside load() that may be in flight at once
MaxFetches == 1

FileIds == 1..MaxFiles

-----------------------------------------------------------------------------
(* API client (part_006) *)

\* HTTP answers: status 0 stands for a transport failure (fetch itself rejects).
Statuses == {0, 200, 201, 400, 401, 404, 500}

\* response.ok
ResponseOk(status) == status >= 200 /\ status <= 299

\* statusText of an answer
StatusText(status) ==
    CASE status = 400 -> "Bad Request"
      [] status = 401 -> "Unauthorized"
      [] status = 404 -> "Not Found"
      [] status = 500 -> "Internal Server Error"
      [] OTHER -> ""

\* Response bodies.  parses: response.json() succeeds.  detail / error: the
\* field's value when it is a string ("Retry in 30 seconds": the cooldown of
\* POST /files/{id}/retry), "<list>" when it is present but not a string
\* (FastAPI validation errors), Absent when missing.  data: the payload.
Bodies ==
    [parses : BOOLEAN, detail : {Absent, "<list>", "No profile", "Retry in 30 seconds", ""},
     error : {Absent, "boom"}, data : Profiles \cup {NoProfile}]

\* JSON.stringify(data) of an error body that has no string detail / error
Stringify(body) ==
    IF body.detail = "<list>" THEN "{detail:[..]}"
    ELSE IF body.data = NoProfile THEN "{}" ELSE "{..}"

\* parseError(response)
parseError(status, body) ==
    IF body.parses
    THEN IF body.detail # Absent /\ body.detail # "<list>" THEN body.detail
         ELSE IF body.error # Absent THEN body.error
         ELSE Stringify(body)
    ELSE IF StatusText(status) # "" THEN StatusText(status) ELSE "Request failed"

\* a || b on strings
OrElse(a, b) == IF a # "" THEN a ELSE b

\* apiService.login: fetch, then parseError(response) || 'Login failed' on !ok
login(status, body) ==
    IF status = 0
    THEN [tag |-> "throw", value |-> NoProfile, msg |-> "Failed to fetch"]
    ELSE IF ~ResponseOk(status)
    THEN [tag |-> "throw", value |-> NoProfile,
          msg |-> OrElse(parseError(status, body), "Login failed")]
    ELSE IF ~body.parses
    THEN [tag |-> "throw", value |-> NoProfile, msg |-> "Unexpected token"]
    ELSE [tag |-> "value", value |-> body.data, msg |-> ""]

\* apiService.register: on !ok it reads response.json() itself (a body that is
\* not JSON makes that await throw) and throws new Error(errorData.detail ||
\* 'Registration failed'); a detail that is a list is turned into a string by
\* Error
register(status, body) ==
    IF status = 0
    THEN [tag |-> "throw", value |-> NoProfile, msg |-> "Failed to fetch"]
    ELSE IF ~body.parses
    THEN [tag |-> "throw", value |-> NoProfile, msg |-> "Unexpected token"]
    ELSE IF ~ResponseOk(status)
    THEN [tag |-> "throw", value |-> NoProfile,
          msg |-> IF body.detail = Absent THEN "Registration failed"
                  ELSE IF body.detail = "<list>" THEN "[object Object]"
                  ELSE OrElse(body.detail, "Registration failed")]
    ELSE [tag |-> "value", value |-> body.data, msg |-> ""]

\* getMedicalProfile without its 404 branch
getMedicalProfileNo404(status, body) ==
    IF status = 0
    THEN [tag |-> "throw", value |-> NoProfile, msg |-> "Failed to fetch"]
    ELSE IF ~ResponseOk(status)
    THEN [tag |-> "throw", value |-> NoProfile,
          msg |-> OrElse(parseError(status, body), "Failed to fetch medical profile")]
    ELSE IF ~body.parses
    THEN [tag |-> "throw", value |-> NoProfile, msg |-> "Unexpected token"]
    ELSE [tag |-> "value", value |-> body.data, msg |-> ""]

\* apiService.retryExtraction: parseError(response) || 'Failed to retry
\* extraction' on !ok
retryExtraction(status, body) ==
    IF status = 0
    THEN [tag |-> "throw", value |-> NoProfile, msg |-> "Failed to fetch"]
    ELSE IF ~ResponseOk(status)
    THEN [tag |-> "throw", value |-> NoProfile,
          msg |-> OrElse(parseError(status, body), "Failed to retry extraction")]
    ELSE IF ~body.parses
    THEN [tag |-> "throw", value |-> NoProfile, msg |-> "Unexpected token"]
    ELSE [tag |-> "value", value |-> body.data, msg |-> ""]

\* the Retry handler's catch: /([0-9]+) seconds/ found in the message alerts
\* `Please wait ~${m[1]}s before retrying again.`, else msg || 'Retry failed'
RetryAlert(msg) ==
    IF msg = "Retry in 30 seconds" THEN "Please wait ~30s before retrying again."
    ELSE OrElse(msg, "Retry failed")

\* apiService.getMedicalProfile(token) on the answer (status, body):
\* [tag, value, msg] with tag "null" (returned null), "value" (returned the
\* parsed body) or "throw" (rejected with Error(msg)).
getMedicalProfile(status, body) ==
    IF status = 0
    THEN [tag |-> "throw", value |-> NoProfile, msg |-> "Failed to fetch"]
    ELSE IF status = 404
    THEN [tag |-> "null", value |-> NoProfile, msg |-> ""]
    ELSE IF ~ResponseOk(status)
    THEN [tag |-> "throw", value |-> NoProfile,
          msg |-> OrElse(parseError(status, body), "Failed to fetch medical profile")]
    ELSE IF ~body.parses
    THEN [tag |-> "throw", value |-> NoProfile, msg |-> "Unexpected token"]
    ELSE [tag |-> "value", value |-> body.data, msg |-> ""]

\* a body carrying the payload p
JsonBody(p) == [parses |-> TRUE, detail |-> Absent, error |-> Absent, data |-> p]

\* an error body {detail: d}
DetailBody(d) == [parses |-> TRUE, detail |-> d, error |-> Absent, data |-> NoProfile]

\* What GET /profile/medical-profile answers when the server holds sp:
\* the profile, 404 when there is none, or a failure (500, transport).
ProfileAnswers(sp) ==
    { IF sp = NoProfile THEN [status |-> 404, body |-> DetailBody("No profile")]
                        ELSE [status |-> 200, body |-> JsonBody(sp)],
      [status |-> 500, body |-> DetailBody("")],
      [status |-> 0, body |-> DetailBody("")] }

-----------------------------------------------------------------------------
(* Session store (AuthContext.jsx) *)

\* JSON.parse(storedUser), for the shapes that have been persisted: the
\* legacy JSON-encoded user object parses to an object (given by its email,
\* "" when it has none); "null" parses to null; a plain email does not parse.
LegacyUser(e) == IF e = "" THEN "{id:1}" ELSE "{email:" \o e \o "}"

JsonParse(s) ==
    IF s = "null" THEN [ok |-> TRUE, isObject |-> FALSE, email |-> Null]
    ELSE IF \E e \in Emails \cup {""} : s = LegacyUser(e)
    THEN [ok |-> TRUE, isObject |-> TRUE,
          email |-> CHOOSE e \in Emails \cup {""} : s = LegacyUser(e)]
    ELSE [ok |-> FALSE, isObject |-> FALSE, email |-> Null]

\* emailOnly of the init effect
EmailOnly(storedUser) ==
    LET parsed == JsonParse(storedUser)
    IN  IF parsed.ok THEN parsed.email ELSE storedUser

\* the init effect: the session restored from local storage
InitToken(store) ==
    IF Truthy(store.token) /\ Truthy(store.user) THEN store.token ELSE Null

InitUser(store) ==
    IF Truthy(store.token) /\ Truthy(store.user) /\ Truthy(EmailOnly(store.user))
    THEN EmailOnly(store.user) ELSE Null

\* isAuthenticated: !!token
isAuthenticated == token # Null

\* a || b on objects-or-null
ObjOr(a, b) == IF a # Null THEN a ELSE b

\* emailToStore = userObject?.email || ''
EmailToStore(userObject) == IF Truthy(userObject) THEN userObject ELSE ""

\* what login() writes to local storage
LoginStore(store, accessToken, userObject) ==
    [store EXCEPT !.token = accessToken, !.user = EmailToStore(userObject)]

\* logout() without its removeItem('user')
LogoutStoreKeepsUser(store) == [store EXCEPT !.token = Absent]

\* what logout() leaves in local storage
LogoutStore(store) == [store EXCEPT !.token = Absent, !.user = Absent]

-----------------------------------------------------------------------------
(* View router (part_005): the effects *)

\* copies in bag B of the elements of S
RECURSIVE SumCopies(_, _)
SumCopies(S, B) ==
    IF S = {} THEN 0
    ELSE LET x == CHOOSE y \in S : TRUE
         IN  CopiesIn(x, B) + SumCopies(S \ {x}, B)

\* A component unmounts: the handlers of B still in flight keep running, but
\* their setState calls on the component's own state no longer have an effect.
Unmounted(B) ==
    LET F(r) == [r EXCEPT !.mounted = FALSE]
    IN  [y \in {F(x) : x \in BagToSet(B)} |->
            SumCopies({x \in BagToSet(B) : F(x) = y}, B)]

\* setFilesList replaces the array: the handlers of B in flight keep the old
\* array (and its row objects) in their closure.
Detached(B) ==
    LET F(r) == [r EXCEPT !.attached = FALSE]
    IN  [y \in {F(x) : x \in BagToSet(B)} |->
            SumCopies({x \in BagToSet(B) : F(x) = y}, B)]

\* the load effect's cleanup: mounted = false (at most one instance is mounted)
Unmount(L) ==
    IF \E r \in BagToSet(L) : r.mounted
    THEN LET r == CHOOSE x \in BagToSet(L) : x.mounted
         IN  (L (-) SetToBag({r})) (+) SetToBag({[r EXCEPT !.mounted = FALSE]})
    ELSE L

\* a load that only ever fetches the files list
FirstFetchFilesOnly(v) == "getFiles"

\* the first authorized call of a load for view v
FirstFetch(v) == IF v = "profile" THEN "getMe" ELSE "getFiles"

\* load(): setLoadingProfile(true), then the first fetch of the view
BeginLoad(L, tokN, usrN, viewN) ==
    L (+) SetToBag({[pc |-> FirstFetch(viewN), mounted |-> TRUE, tok |-> tokN,
                     usr |-> usrN, snap |-> {}]})

\* The effects that run after a render in which the session became
\* (tokN, usrN) and a handler asked for viewReq; mount: the first render.
\*   reset effect   [isAuthenticated]: not authenticated -> setView('upload'), remove 'view'
\*   persist effect [view, isAuthenticated]: set 'view' when authenticated, else remove it
\*   load effect    [isAuthenticated, view, token]: cleanup, then load() for a LoadView
\* Result: the settled view, local storage and load instances, and whether a
\* load started.
Effects(tokOld, viewOld, tokN, usrN, viewReq, store, L, mount) ==
    LET authChanged == mount \/ ((tokN = Null) # (tokOld = Null))
        viewN == IF tokN = Null /\ authChanged THEN LogoutView ELSE viewReq
        persist == authChanged \/ viewN # viewOld \/ viewReq # viewOld
        deps == mount \/ tokN # tokOld \/ viewN # viewOld \/ viewReq # viewOld
        L0 == IF deps THEN Unmount(L) ELSE L
        start == deps /\ tokN # Null /\ viewN \in LoadViews
    IN  [view |-> viewN,
         ls |-> IF persist
                THEN [store EXCEPT !.view = IF tokN # Null THEN viewN ELSE Absent]
                ELSE store,
         blocked |-> start /\ BagCardinality(L0) >= MaxLoads,
         started |-> start,
         loads |-> IF start THEN BeginLoad(L0, tokN, usrN, viewN) ELSE L0]

\* an authorized call: the bearer it carries and the session token at issue
Call(fn, bearer, session) == [bearer |-> bearer, session |-> session]

\* nothing failed, nothing was prompted
NoUi == [failed |-> "", shown |-> FALSE, prompt |-> "", answer |-> FALSE, row |-> 0]

\* the request of `origin` failed; shown: a toast, an alert or an error entry
\* told the user
Failure(origin, shown) == [NoUi EXCEPT !.failed = origin, !.shown = shown]

\* window.confirm of `which` returned answer
Prompt(which, answer) == [NoUi EXCEPT !.prompt = which, !.answer = answer]

\* no profile fetch has returned, the edit form is untouched
NoEditHist == [loaded |-> FALSE, fetched |-> NoProfile, edited |-> FALSE]

\* history of a step: the operation that acted (only login, logout and reload
\* are told apart), what it put before the user, the edit history
Hist(op, ui, eh) ==
    /\ lastOp' = op
    /\ viewShown' = ""
    /\ lastUi' = ui
    /\ editHist' = eh

DidUi(op, ui) == Hist(op, ui, editHist)

Did(op) == Hist(op, NoUi, editHist)

\* an initial state that ignores the persisted view
InitViewIgnoresStore(store) == InitialView

\* the view's initial state: localStorage.getItem('view') || 'home'
InitView(store) == IF Truthy(store.view) THEN store.view ELSE InitialView

\* The state right after a page load over local storage `store`: the init
\* effect of AuthProvider, OnePageApp's initial state and its mount effects.
Boot(store) ==
    Effects(Null, InitialView, InitToken(store), InitUser(store), InitView(store),
            store, EmptyBag, TRUE)

IdleLogin == [pc |-> "idle", email |-> "", tok |-> Null]

IdleSave == [pc |-> "idle", tok |-> Null, keys |-> {}, vals |-> defaultProfile]

NoSave == [method |-> "unsaved", serverHad |-> FALSE, keys |-> {}]

EmptyStore == [token |-> Absent, user |-> Absent, view |-> Absent]

\* the files the backend holds at the start: one uploaded document
InitialFiles == {[id |-> 1, status |-> "uploaded"]}

\* ChatView's initial state
FreshChatView == [text |-> "", sending |-> FALSE]

\* UploadsView's initial state: no row is busy, the schedule is [] and the
\* getSchedule of its mount effect is awaited
FreshUploadsView ==
    [reviewMap |-> {}, retryBusy |-> {}, busyMap |-> {}, loadingMap |-> {}, schedule |-> {},
     schedReq |-> "pending"]

\* a chat answer before any answer
NoChatAnswer == [status |-> 0, parses |-> FALSE, reply |-> ""]

NoChatHist ==
    [sends |-> 0, done |-> 0, cleared |-> FALSE, text |-> "", answer |-> NoChatAnswer,
     escaped |-> FALSE]

\* an answer and a result of the API client before any call
NoAnswer == [status |-> 200, body |-> JsonBody(NoProfile)]

NoResult == [tag |-> "none", value |-> NoProfile, msg |-> ""]

\* the upload form's initial state: useState(null), useState('')
NoUploadForm == [file |-> Null, fileName |-> ""]

\* The state after a page load over `store`, with the backend holding sp and sf.
Loaded(store, sp, sf) ==
    LET b == Boot(store)
    IN  /\ token = InitToken(store)
        /\ user = InitUser(store)
        /\ ls = b.ls
        /\ loginReq = IdleLogin
        /\ view = b.view
        /\ busy = FALSE
        /\ uploadForm = NoUploadForm
        /\ me = Null
        /\ profile = defaultProfile
        /\ originalProfile = defaultProfile
        /\ profileExists = FALSE
        /\ filesList = {}
        /\ loadingProfile = b.started
        /\ loads = b.loads
        /\ saveReq = IdleSave
        /\ serverProfile = sp
        /\ serverFiles = sf
        /\ lastOp = "other"
        /\ lastCall = IF b.started
                      THEN Call(FirstFetch(b.view), InitToken(store), InitToken(store))
                      ELSE Call("none", Null, Null)
        /\ lastSave = NoSave
        /\ viewShown = ""
        /\ lastUi = NoUi
        /\ editHist = NoEditHist
        /\ chatView = FreshChatView
        /\ uploadsView = FreshUploadsView
        /\ chatMessages = <<>>
        /\ chatReqs = EmptyBag
        /\ chatHist = NoChatHist
        /\ fetches = EmptyBag
        /\ rowOps = EmptyBag
        /\ deletedOk = {}

\* first visit: nothing persisted, nothing on the server but one file
Init ==
    /\ Loaded(EmptyStore, NoProfile, InitialFiles)
    /\ apiAnswer = NoAnswer
    /\ apiResult = NoResult

vars ==
    <<token, user, ls, loginReq, view, busy, uploadForm, me, profile, originalProfile, profileExists,
      filesList, loadingProfile, loads, saveReq, serverProfile, serverFiles,
      lastOp, lastCall, lastSave, viewShown, lastUi, editHist, chatView, uploadsView, chatMessages, chatReqs,
      chatHist, fetches, rowOps, deletedOk, apiAnswer, apiResult>>

authVars == <<token, user, loginReq>>

uiVars == <<chatView, uploadsView>>

chatVars == <<chatMessages, chatReqs, chatHist>>

rowVars == <<fetches, rowOps, deletedOk>>

\* what a render leaves alone of the chat, the uploads list and the API client
keptVars == <<chatMessages, chatHist, fetches, deletedOk, apiAnswer, apiResult>>

apiVars == <<apiAnswer, apiResult>>

profileVars == <<profile, originalProfile, profileExists>>

serverVars == <<serverProfile, serverFiles>>

\* Apply the settled effects e of a render (the action fixes token', user').
Settle(e, tokN) ==
    /\ ~e.blocked
    /\ view' = e.view
    /\ ls' = e.ls
    /\ loads' = e.loads
    /\ loadingProfile' = (e.started \/ loadingProfile)
    /\ lastCall' = IF e.started THEN Call(FirstFetch(e.view), tokN, tokN) ELSE lastCall
    /\ LET remount == e.view # view \/ tokN # token
       IN  /\ chatView' = IF remount THEN FreshChatView ELSE chatView
           /\ uploadsView' = IF remount THEN FreshUploadsView ELSE uploadsView
           /\ chatReqs' = IF remount THEN Unmounted(chatReqs) ELSE chatReqs
           /\ rowOps' = IF remount THEN Unmounted(rowOps) ELSE rowOps

-----------------------------------------------------------------------------
(* Session store: login, logout (AuthContext.jsx), doLogin (part_005) *)

\* doLogin: the Sign in button (disabled={busy || !canLogin}) -> login(email, password)
DoLogin ==
    /\ ~isAuthenticated /\ ~busy /\ loginReq.pc = "idle"
    /\ \E e \in Emails : loginReq' = [pc |-> "login", email |-> e, tok |-> Null]
    /\ busy' = TRUE
    /\ Did("other")
    /\ UNCHANGED <<uiVars, chatVars, rowVars, apiVars>>
    /\ UNCHANGED <<uploadForm, token, user, ls, view, me, profileVars, filesList, loadingProfile, loads,
                   saveReq, serverVars, lastCall, lastSave>>

\* apiService.login rejected: login() rethrows, doLogin toasts; finally setBusy(false)
LoginFailed ==
    /\ loginReq.pc = "login"
    /\ loginReq' = IdleLogin
    /\ busy' = FALSE
    /\ DidUi("other", Failure("login", TRUE))
    /\ UNCHANGED <<uiVars, chatVars, rowVars, apiVars>>
    /\ UNCHANGED <<uploadForm, token, user, ls, view, me, profileVars, filesList, loadingProfile, loads,
                   saveReq, serverVars, lastCall, lastSave>>

\* doRegister: the Create account button (disabled={busy || !canRegister}) ->
\* apiService.register(payload)
DoRegister ==
    /\ ~isAuthenticated /\ ~busy /\ loginReq.pc = "idle"
    /\ \E e \in Emails : loginReq' = [pc |-> "register", email |-> e, tok |-> Null]
    /\ busy' = TRUE
    /\ Did("other")
    /\ UNCHANGED <<uiVars, chatVars, rowVars, apiVars>>
    /\ UNCHANGED <<uploadForm, token, user, ls, view, me, profileVars, filesList, loadingProfile, loads,
                   saveReq, serverVars, lastCall, lastSave>>

\* apiService.register settled: toast.success and the sign-in tab, or the catch's
\* toast.error; finally setBusy(false). No session is created either way.
RegisterSettled ==
    /\ loginReq.pc = "register"
    /\ loginReq' = IdleLogin
    /\ busy' = FALSE
    /\ \E ok \in BOOLEAN : DidUi("other", IF ok THEN NoUi ELSE Failure("register", TRUE))
    /\ UNCHANGED <<uiVars, chatVars, rowVars, apiVars>>
    /\ UNCHANGED <<uploadForm, token, user, ls, view, me, profileVars, filesList, loadingProfile, loads,
                   saveReq, serverVars, lastCall, lastSave>>

\* apiService.login resolved with access_token t: login() goes on to getMe(access_token)
LoginToken ==
    /\ loginReq.pc = "login"
    /\ \E t \in Tokens :
          /\ loginReq' = [loginReq EXCEPT !.pc = "getMe", !.tok = t]
          /\ lastCall' = Call("getMe", t, token)
    /\ Did("other")
    /\ UNCHANGED <<uiVars, chatVars, rowVars, apiVars>>
    /\ UNCHANGED <<uploadForm, token, user, ls, view, busy, me, profileVars, filesList, loadingProfile,
                   loads, saveReq, serverVars, lastSave>>

\* login() without its fallback to { email } when getMe rejects
UserObjectNoFallback(ok, meData, email) == IF ok THEN ObjOr(meData, email) ELSE Null

\* userObject of login(): me || { email }, { email } when getMe rejected
UserObject(ok, meData, email) == IF ok THEN ObjOr(meData, email) ELSE email

\* getMe settled: setToken, setUser, persist token and email; doLogin's finally
LoginDone ==
    /\ loginReq.pc = "getMe"
    /\ \E ok \in BOOLEAN, meData \in MeObjects :
          LET userObject == UserObject(ok, meData, loginReq.email)
              e == Effects(token, view, loginReq.tok, userObject, view,
                           LoginStore(ls, loginReq.tok, userObject), loads, FALSE)
          IN  /\ token' = loginReq.tok
              /\ user' = userObject
              /\ Settle(e, loginReq.tok)
              /\ Did(IF ok THEN "login" ELSE "login-minimal")
    /\ loginReq' = IdleLogin
    /\ busy' = FALSE
    /\ UNCHANGED keptVars
    /\ UNCHANGED <<uploadForm, me, profileVars, filesList, saveReq, serverVars, lastSave>>

\* logout(): ProfileMenu's Logout entry, rendered only while authenticated
Logout ==
    /\ isAuthenticated
    /\ token' = Null
    /\ user' = Null
    /\ Settle(Effects(token, view, Null, Null, view, LogoutStore(ls), loads, FALSE), Null)
    /\ Did("logout")
    /\ UNCHANGED keptVars
    /\ UNCHANGED <<loginReq, busy, uploadForm, me, profileVars, filesList, saveReq, serverVars,
                   lastSave>>

-----------------------------------------------------------------------------
(* View router: navigation (part_005) *)

\* setView(v) by a handler while the session stays as it is
Show(v) ==
    /\ Settle(Effects(token, view, token, user, v, ls, loads, FALSE), token)
    /\ UNCHANGED <<uploadForm, authVars, busy, me, filesList, saveReq, serverVars, lastSave>>

\* header buttons and ProfileMenu entries (rendered only while authenticated)
Navigate ==
    /\ isAuthenticated
    /\ \E v \in {"home", "schedule", "profile", "uploads"} : v # view /\ Show(v)
    /\ Did("other")
    /\ UNCHANGED keptVars
    /\ UNCHANGED profileVars

\* ProfileView's onEdit
OnEdit ==
    /\ isAuthenticated /\ view = "profile"
    /\ Show("edit-medical")
    /\ Hist("other", NoUi, [editHist EXCEPT !.edited = FALSE])
    /\ UNCHANGED keptVars
    /\ UNCHANGED profileVars

\* EditMedicalView's onCancel
OnCancel ==
    /\ isAuthenticated /\ view = "edit-medical"
    /\ Show("profile")
    /\ Hist("other", NoUi, [editHist EXCEPT !.edited = FALSE])
    /\ UNCHANGED keptVars
    /\ UNCHANGED profileVars

\* the floating chat button (rendered whether authenticated or not)
ToggleChat ==
    /\ Show(IF view = "chat" THEN "upload" ELSE "chat")
    /\ Did("other")
    /\ UNCHANGED keptVars
    /\ UNCHANGED profileVars

\* A page reload: every request and handler of the old page is gone, all
\* React state is re-created, local storage stays.
Reload ==
    LET b == Boot(ls)
    IN  /\ token' = InitToken(ls)
        /\ user' = InitUser(ls)
        /\ ls' = b.ls
        /\ view' = b.view
        /\ loads' = b.loads
        /\ loadingProfile' = b.started
        /\ lastCall' = IF b.started
                       THEN Call(FirstFetch(b.view), InitToken(ls), InitToken(ls))
                       ELSE lastCall
        /\ loginReq' = IdleLogin
        /\ saveReq' = IdleSave
        /\ busy' = FALSE
        /\ uploadForm' = NoUploadForm
        /\ me' = Null
        /\ profile' = defaultProfile
        /\ originalProfile' = defaultProfile
        /\ profileExists' = FALSE
        /\ filesList' = {}
        /\ lastOp' = "reload"
        /\ viewShown' = view
        /\ lastUi' = NoUi
        /\ editHist' = [editHist EXCEPT !.edited = FALSE]
        /\ chatView' = FreshChatView
        /\ uploadsView' = FreshUploadsView
        /\ chatMessages' = <<>>
        /\ chatReqs' = EmptyBag
        /\ fetches' = EmptyBag
        /\ rowOps' = EmptyBag
        /\ chatHist' = NoChatHist
        /\ lastSave' = NoSave
        /\ UNCHANGED <<serverVars, deletedOk, apiVars>>

-----------------------------------------------------------------------------
(* View router: the load effect's async load() (part_005, 168-218) *)

\* load() instance r becomes r2
Step(r, r2) == (loads (-) SetToBag({r})) (+) SetToBag({r2})

\* load() returns or falls through its last fetch: finally setLoadingProfile(false)
EndLoad(r) ==
    /\ loads' = loads (-) SetToBag({r})
    /\ loadingProfile' = FALSE

\* load() goes on to its next fetch fn, with the token of its closure
NextFetch(r, fn) ==
    /\ loads' = Step(r, [r EXCEPT !.pc = fn])
    /\ lastCall' = Call(fn, r.tok, token)
    /\ UNCHANGED loadingProfile

\* what a resolved getMe leaves in me: meData || user || null
MeShown(meData, usr) == ObjOr(meData, usr)

\* getMe(token) of load() resolved with meData
LoadMeOk(r) ==
    /\ r.pc = "getMe"
    /\ \E meData \in MeObjects :
          IF ~r.mounted
          THEN EndLoad(r) /\ UNCHANGED <<me, lastCall>>
          ELSE me' = MeShown(meData, r.usr) /\ NextFetch(r, "getMedicalProfile")
    /\ Did("other")
    /\ UNCHANGED <<uiVars, chatVars, rowVars, apiVars>>
    /\ UNCHANGED <<uploadForm, authVars, ls, view, busy, profileVars, filesList, saveReq, serverVars,
                   lastSave>>

\* getMe(token) of load() rejected: fallback to the auth context user
LoadMeFailed(r) ==
    /\ r.pc = "getMe"
    /\ me' = r.usr
    /\ NextFetch(r, "getMedicalProfile")
    /\ DidUi("other", Failure("load", FALSE))
    /\ UNCHANGED <<uiVars, chatVars, rowVars, apiVars>>
    /\ UNCHANGED <<uploadForm, authVars, ls, view, busy, profileVars, filesList, saveReq, serverVars,
                   lastSave>>

\* setProfile / setOriginalProfile / setProfileExists for the fetched pf (null: NoProfile)
ShowProfile(pf) ==
    /\ profile' = IF pf = NoProfile THEN defaultProfile ELSE pf
    /\ originalProfile' = IF pf = NoProfile THEN defaultProfile ELSE pf
    /\ profileExists' = (pf # NoProfile)

\* getMedicalProfile(token) of load() settled
LoadProfileDone(r) ==
    /\ r.pc = "getMedicalProfile"
    /\ \E a \in ProfileAnswers(serverProfile) :
          LET res == getMedicalProfile(a.status, a.body)
          IN  IF res.tag = "throw"
              THEN /\ ShowProfile(NoProfile) /\ NextFetch(r, "getFiles")
                   /\ DidUi("other", Failure("load", FALSE))
              ELSE IF ~r.mounted
              THEN /\ EndLoad(r) /\ UNCHANGED <<profileVars, lastCall>>
                   /\ Did("other")
              ELSE /\ ShowProfile(res.value) /\ NextFetch(r, "getFiles")
                   /\ Hist("other", NoUi,
                           [editHist EXCEPT !.loaded = TRUE, !.fetched = res.value])
    /\ UNCHANGED <<uiVars, chatVars, rowVars, apiVars>>
    /\ UNCHANGED <<uploadForm, authVars, ls, view, busy, me, filesList, saveReq, serverVars, lastSave>>

\* setFilesList(rows): a new array; handlers in flight keep the old one
SetFilesList(rows) ==
    /\ filesList' = rows
    /\ rowOps' = Detached(rowOps)

\* the backend answers load()'s GET /files/ with the files it holds now
LoadFilesServed(r) ==
    /\ r.pc = "getFiles"
    /\ loads' = Step(r, [r EXCEPT !.pc = "filesReply", !.snap = LiveFiles(serverFiles)])
    /\ Did("other")
    /\ UNCHANGED <<uiVars, chatVars, rowVars, apiVars>>
    /\ UNCHANGED <<uploadForm, authVars, ls, view, busy, me, profileVars, filesList, loadingProfile,
                   saveReq, serverVars, lastCall, lastSave>>

\* getFiles(token) of load() resolved with the answer
LoadFilesOk(r) ==
    /\ r.pc = "filesReply"
    /\ IF r.mounted THEN SetFilesList(r.snap) ELSE UNCHANGED <<filesList, rowOps>>
    /\ EndLoad(r)
    /\ Did("other")
    /\ UNCHANGED <<uiVars, chatVars, fetches, deletedOk, apiVars>>
    /\ UNCHANGED <<uploadForm, authVars, ls, view, busy, me, profileVars, saveReq, serverVars,
                   lastCall, lastSave>>

\* getFiles(token) of load() rejected
LoadFilesFailed(r) ==
    /\ r.pc \in {"getFiles", "filesReply"}
    /\ SetFilesList({})
    /\ EndLoad(r)
    /\ DidUi("other", Failure("load", FALSE))
    /\ UNCHANGED <<uiVars, chatVars, fetches, deletedOk, apiVars>>
    /\ UNCHANGED <<uploadForm, authVars, ls, view, busy, me, profileVars, saveReq, serverVars,
                   lastCall, lastSave>>

-----------------------------------------------------------------------------
(* Profile editing: EditMedicalView (part_002), saveProfile (part_005, 133-162) *)

\* a textarea's onChange: setProfile(p => ({ ...p, [k]: value }))
EditField ==
    /\ isAuthenticated /\ view = "edit-medical"
    /\ \E k \in Fields, v \in FieldValues :
          v # profile[k] /\ profile' = [profile EXCEPT ![k] = v]
    /\ Hist("other", NoUi, [editHist EXCEPT !.edited = TRUE])
    /\ UNCHANGED <<uiVars, chatVars, rowVars, apiVars>>
    /\ UNCHANGED <<uploadForm, authVars, ls, view, busy, me, originalProfile, profileExists, filesList,
                   loadingProfile, loads, saveReq, serverVars, lastCall, lastSave>>

\* the fields whose value differs from originalProfile
Changes(p, orig) == {k \in Fields : p[k] # orig[k]}

\* the request saveProfile starts with: create when !profileExists, else a
\* patch of the changed fields, or straight to the re-fetch when none changed
SaveMethod(exists, p, orig) ==
    IF ~exists THEN "POST" ELSE IF Changes(p, orig) # {} THEN "PATCH" ELSE "none"

\* saveProfile: the Save button (disabled={busy}) of the edit view
SaveProfile ==
    /\ isAuthenticated /\ view = "edit-medical" /\ ~busy /\ saveReq.pc = "idle"
    /\ busy' = TRUE
    /\ LET m == SaveMethod(profileExists, profile, originalProfile)
           keys == IF m = "POST" THEN Fields ELSE Changes(profile, originalProfile)
       IN  /\ saveReq' = [pc |-> IF m = "none" THEN "refetch" ELSE m, tok |-> token,
                          keys |-> keys, vals |-> profile]
           /\ lastSave' = [method |-> m, serverHad |-> serverProfile # NoProfile,
                           keys |-> keys]
           /\ lastCall' = Call(IF m = "POST" THEN "createMedicalProfile"
                               ELSE IF m = "PATCH" THEN "patchMedicalProfile"
                               ELSE "getMedicalProfile", token, token)
    /\ Did("other")
    /\ UNCHANGED <<uiVars, chatVars, rowVars, apiVars>>
    /\ UNCHANGED <<uploadForm, authVars, ls, view, me, profileVars, filesList, loadingProfile, loads,
                   serverVars>>

\* the backend applies a patch to the profile it holds
Patched(sp, keys, vals) == [k \in Fields |-> IF k \in keys THEN vals[k] ELSE sp[k]]

\* The backend accepts the create / patch (a create only when the user has no
\* profile, a patch only when there is one); saveProfile goes on to re-fetch.
SaveWritten ==
    /\ saveReq.pc \in {"POST", "PATCH"}
    /\ (saveReq.pc = "POST") = (serverProfile = NoProfile)
    /\ serverProfile' = IF saveReq.pc = "POST" THEN saveReq.vals
                        ELSE Patched(serverProfile, saveReq.keys, saveReq.vals)
    /\ saveReq' = [saveReq EXCEPT !.pc = "refetch"]
    /\ lastCall' = Call("getMedicalProfile", saveReq.tok, token)
    /\ Did("other")
    /\ UNCHANGED <<uiVars, chatVars, rowVars, apiVars>>
    /\ UNCHANGED <<uploadForm, authVars, ls, view, busy, me, profileVars, filesList, loadingProfile,
                   loads, serverFiles, lastSave>>

\* the create / patch rejected (non-2xx or transport): toast; finally setBusy(false)
SaveFailed ==
    /\ saveReq.pc \in {"POST", "PATCH"}
    /\ saveReq' = IdleSave
    /\ busy' = FALSE
    /\ lastSave' = NoSave
    /\ DidUi("other", Failure("save", TRUE))
    /\ UNCHANGED <<uiVars, chatVars, rowVars, apiVars>>
    /\ UNCHANGED <<uploadForm, authVars, ls, view, me, profileVars, filesList, loadingProfile, loads,
                   serverVars, lastCall>>

\* saveProfile without its catch before setView: 'profile' whatever happened
SavedViewAlways(tag, v) == "profile"

\* the view after saveProfile's re-fetch settled: setView('profile') when it
\* resolved, the view as it is when it rejected
SavedView(tag, v) == IF tag = "throw" THEN v ELSE "profile"

\* the re-fetch of saveProfile settled
SaveRefetched ==
    /\ saveReq.pc = "refetch"
    /\ \E a \in ProfileAnswers(serverProfile) :
          LET r == getMedicalProfile(a.status, a.body)
          IN  /\ IF r.tag = "throw" THEN UNCHANGED profileVars ELSE ShowProfile(r.value)
              /\ Settle(Effects(token, view, token, user, SavedView(r.tag, view), ls, loads,
                                FALSE), token)
              /\ IF r.tag = "throw"
                 THEN DidUi("other", Failure("save", TRUE))
                 ELSE Hist("other", NoUi,
                           [loaded |-> TRUE, fetched |-> r.value, edited |-> FALSE])
    /\ saveReq' = IdleSave
    /\ busy' = FALSE
    /\ lastSave' = NoSave
    /\ UNCHANGED keptVars
    /\ UNCHANGED <<uploadForm, authVars, me, filesList, serverVars>>

-----------------------------------------------------------------------------
(* Chat: ChatView (part_002, 431-484), the Clear button (part_005, 433-437) *)

\* what the user types into the chat input
ChatTexts == {"hi"}

\* the reply field of a chat answer
Replies == {"Hi there"}

\* the assistant entry appended when the request fails
FallbackReply == "Error: could not get response"

\* What POST /chat/ can answer: a reply, a 2xx answer whose body is not JSON,
\* a non-2xx answer, a transport failure (status 0).
ChatAnswers ==
    { [status |-> 200, parses |-> TRUE, reply |-> r] : r \in Replies } \cup
    { [status |-> 200, parses |-> FALSE, reply |-> ""],
      [status |-> 500, parses |-> TRUE, reply |-> ""],
      [status |-> 0, parses |-> FALSE, reply |-> ""] }

\* a transcript entry (its id, Date.now() + Math.random(), is only a render key)
Entry(role, content) == [role |-> role, content |-> content]

\* send() without its catch: a failed request appends nothing and rejects
SendSettledNoCatch(a) ==
    IF a.status # 0 /\ ResponseOk(a.status) /\ a.parses
    THEN [entries |-> <<Entry("assistant", a.reply)>>, escaped |-> FALSE]
    ELSE [entries |-> <<>>, escaped |-> TRUE]

\* send() after its await, on the answer a: the entries it appends, and
\* whether an exception leaves the handler
SendSettled(a) ==
    IF a.status # 0 /\ ResponseOk(a.status) /\ a.parses
    THEN [entries |-> <<Entry("assistant", a.reply)>>, escaped |-> FALSE]
    ELSE [entries |-> <<Entry("assistant", FallbackReply)>>, escaped |-> FALSE]

\* a handler that goes on whatever window.confirm returned
ConfirmedAlways(answer) == TRUE

\* the handler goes on after window.confirm: if (!ok) return
Confirmed(answer) == answer

\* the chat input's onChange: setText
TypeText ==
    /\ isAuthenticated /\ view = "chat"
    /\ \E t \in ChatTexts \cup {""} :
          t # chatView.text /\ chatView' = [chatView EXCEPT !.text = t]
    /\ Did("other")
    /\ UNCHANGED <<uploadsView, chatVars, rowVars, apiVars>>
    /\ UNCHANGED <<uploadForm, authVars, ls, view, busy, me, profileVars, filesList, loadingProfile,
                   loads, saveReq, serverVars, lastCall, lastSave>>

\* send(): the Send button (disabled={sending}); returns at once on an empty
\* input or without a token, else appends the user entry, clears the input,
\* sets sending and issues POST /chat/
Send ==
    /\ isAuthenticated /\ view = "chat" /\ ~chatView.sending
    /\ chatHist.sends < MaxSends
    /\ IF chatView.text = "" \/ ~Truthy(token)
       THEN UNCHANGED vars
       ELSE /\ chatMessages' = Append(chatMessages, Entry("user", chatView.text))
            /\ chatView' = [text |-> "", sending |-> TRUE]
            /\ chatReqs' = chatReqs (+) SetToBag({[message |-> chatView.text, tok |-> token,
                                                   mounted |-> TRUE]})
            /\ chatHist' = [chatHist EXCEPT !.sends = @ + 1, !.text = chatView.text]
            /\ lastCall' = Call("chat", token, token)
            /\ Did("other")
            /\ UNCHANGED <<uploadsView, rowVars, apiVars>>
            /\ UNCHANGED <<uploadForm, authVars, ls, view, busy, me, profileVars, filesList,
                           loadingProfile, loads, saveReq, serverVars, lastSave>>

\* POST /chat/ of the send() instance r settled with an answer: the assistant
\* entry is appended; finally setSending(false) on the ChatView that sent it
ChatSettled(r) ==
    /\ \E a \in ChatAnswers :
          /\ chatMessages' = chatMessages \o SendSettled(a).entries
          /\ chatHist' = [chatHist EXCEPT !.done = @ + 1, !.answer = a,
                                          !.escaped = @ \/ SendSettled(a).escaped]
          /\ DidUi("other", IF a.status \in 200..299 /\ a.parses THEN NoUi
                            ELSE Failure("chat", TRUE))
    /\ chatReqs' = chatReqs (-) SetToBag({r})
    /\ chatView' = IF r.mounted THEN [chatView EXCEPT !.sending = FALSE] ELSE chatView
    /\ UNCHANGED <<uploadsView, rowVars, apiVars>>
    /\ UNCHANGED <<uploadForm, authVars, ls, view, busy, me, profileVars, filesList, loadingProfile,
                   loads, saveReq, serverVars, lastCall, lastSave>>

\* the Clear button of the chat card: nothing on an empty transcript, else
\* setChatMessages([]) once the confirm is accepted
ClearChat ==
    /\ isAuthenticated /\ view = "chat"
    /\ IF Len(chatMessages) = 0
       THEN UNCHANGED vars
       ELSE \E ok \in BOOLEAN :
              /\ IF ~Confirmed(ok)
                 THEN UNCHANGED <<chatMessages, chatHist>>
                 ELSE /\ chatMessages' = <<>>
                      /\ chatHist' = [chatHist EXCEPT !.cleared = TRUE]
              /\ DidUi("other", Prompt("clear", ok))
              /\ UNCHANGED <<uiVars, chatReqs, rowVars, apiVars>>
              /\ UNCHANGED <<uploadForm, authVars, ls, view, busy, me, profileVars, filesList,
                             loadingProfile, loads, saveReq, serverVars, lastCall, lastSave>>

-----------------------------------------------------------------------------
(* Uploads list: UploadsView (part_002, 156-325), HomeView's Upload button  *)
(* (part_002, 423), the refresh-files handler (part_005, 221-233)           *)

\* Status strings GET /files/ can carry.  The backend keeps status as a free
\* string; the client folds case before it picks the badge.
WireStatuses == {"uploaded", "awaiting_review", "accepted", "Accepted"}

\* String(status || '').toLowerCase(), over WireStatuses
ToLower(status) == IF status = "Accepted" THEN "accepted" ELSE status

\* the badge's label: s.replace(/_/g, ' ') || 'unknown'
BadgeLabel(status) ==
    LET s == ToLower(status)
    IN  IF s = "awaiting_review" THEN "awaiting review"
        ELSE IF s = "" THEN "unknown" ELSE s

\* the row's Review/Accept button is rendered: f.status !== 'accepted'
ShowsReview(f) == f.status # "accepted"

\* the row's Retry button is rendered: f.status !== 'accepted'
ShowsRetry(f) == f.status # "accepted"

\* the rows are on screen: UploadsView is mounted ('uploads', or inside
\* HomeView) and does not show "Loading..."
RowsRendered == isAuthenticated /\ view \in {"uploads", "home"} /\ ~loadingProfile

Ids(rows) == {f.id : f \in rows}

\* rows with the status of row id set to st (f.status = st on the row object)
WithStatus(rows, id, st) ==
    {IF f.id = id THEN [f EXCEPT !.status = st] ELSE f : f \in rows}

\* rows without row id (filesList.splice(idx, 1))
Spliced(rows, id) == {f \in rows : f.id # id}

\* a row handler starts
RowOp(kind, id, pc) ==
    [kind |-> kind, id |-> id, pc |-> pc, tok |-> token, mounted |-> TRUE,
     attached |-> TRUE]

\* row handler op moves on to pc
RowStep(op, pc) == (rowOps (-) SetToBag({op})) (+) SetToBag({[op EXCEPT !.pc = pc]})

\* a finally that leaves the flags as they are
ClearedNever(uv, op) == uv

\* the handler's finally: its row's flag is set to false in the map of the
\* UploadsView that started it
Cleared(uv, op) ==
    IF ~op.mounted THEN uv
    ELSE IF op.kind = "review" THEN [uv EXCEPT !.reviewMap = @ \ {op.id}]
    ELSE IF op.kind = "retry" THEN [uv EXCEPT !.retryBusy = @ \ {op.id}]
    ELSE IF op.kind = "open" THEN [uv EXCEPT !.loadingMap = @ \ {op.id}]
    ELSE [uv EXCEPT !.busyMap = @ \ {op.id}]

\* a row handler that issues its request again instead of returning
FinishRetrying(op) ==
    /\ rowOps' = rowOps
    /\ uploadsView' = uploadsView

\* row handler op returns
Finish(op) ==
    /\ rowOps' = rowOps (-) SetToBag({op})
    /\ uploadsView' = Cleared(uploadsView, op)

\* Review/Accept clicked (disabled={!!reviewMap[f.id]}): getExtraction(f.id, token),
\* with fewer than limit row handlers in flight
ReviewClickWithin(limit) ==
    /\ RowsRendered /\ BagCardinality(rowOps) < limit
    /\ \E f \in filesList :
          /\ ShowsReview(f) /\ f.id \notin uploadsView.reviewMap
          /\ uploadsView' = [uploadsView EXCEPT !.reviewMap = @ \cup {f.id}]
          /\ rowOps' = rowOps (+) SetToBag({RowOp("review", f.id, "getExtraction")})
    /\ lastCall' = Call("getExtraction", token, token)
    /\ Did("other")
    /\ UNCHANGED <<chatView, chatVars, fetches, deletedOk, apiVars>>
    /\ UNCHANGED <<uploadForm, authVars, ls, view, busy, me, profileVars, filesList, loadingProfile,
                   loads, saveReq, serverVars, lastSave>>

ReviewClick == ReviewClickWithin(MaxRowOps)

\* getExtraction settled: on success the confirm dialog; OK goes on to
\* acceptExtraction(f.id, token), Cancel and a failure end the handler
ReviewExtraction(op) ==
    /\ op.kind = "review" /\ op.pc = "getExtraction"
    /\ \E outcome \in {"accept", "cancel", "fail"} :
          IF outcome = "fail" \/ op.id \notin Ids(LiveFiles(serverFiles))
          THEN /\ Finish(op) /\ UNCHANGED lastCall
               /\ DidUi("other", Failure("review", FALSE))
          ELSE IF Confirmed(outcome = "accept")
          THEN /\ rowOps' = RowStep(op, "accept")
               /\ lastCall' = Call("acceptExtraction", op.tok, token)
               /\ UNCHANGED uploadsView
               /\ DidUi("other", Prompt("review", TRUE))
          ELSE /\ Finish(op) /\ UNCHANGED lastCall
               /\ DidUi("other", Prompt("review", outcome = "accept"))
    /\ UNCHANGED <<chatView, chatVars, fetches, deletedOk, apiVars>>
    /\ UNCHANGED <<uploadForm, authVars, ls, view, busy, me, profileVars, filesList, loadingProfile,
                   loads, saveReq, serverVars, lastSave>>

\* acceptExtraction settled: on success the backend has set the file's
\* status to accepted and the handler sets f.status = 'accepted' on the row
\* object of its closure
ReviewAccepted(op) ==
    /\ op.kind = "review" /\ op.pc = "accept"
    /\ \E ok \in BOOLEAN :
          IF ok /\ op.id \in Ids(LiveFiles(serverFiles))
          THEN /\ serverFiles' = WithStatus(serverFiles, op.id, "accepted")
               /\ filesList' = IF op.attached THEN WithStatus(filesList, op.id, "accepted")
                               ELSE filesList
               /\ Did("other")
          ELSE /\ UNCHANGED <<serverFiles, filesList>>
               /\ DidUi("other", Failure("review", FALSE))
    /\ Finish(op)
    /\ UNCHANGED <<chatView, chatVars, fetches, deletedOk, apiVars>>
    /\ UNCHANGED <<uploadForm, authVars, ls, view, busy, me, profileVars, loadingProfile, loads,
                   saveReq, serverProfile, lastCall, lastSave>>

\* Retry clicked (disabled={!!retryBusy[f.id]}): retryExtraction(f.id, token)
RetryClick ==
    /\ RowsRendered /\ BagCardinality(rowOps) < MaxRowOps
    /\ \E f \in filesList :
          /\ ShowsRetry(f) /\ f.id \notin uploadsView.retryBusy
          /\ uploadsView' = [uploadsView EXCEPT !.retryBusy = @ \cup {f.id}]
          /\ rowOps' = rowOps (+) SetToBag({RowOp("retry", f.id, "retryExtraction")})
    /\ lastCall' = Call("retryExtraction", token, token)
    /\ Did("other")
    /\ UNCHANGED <<chatView, chatVars, fetches, deletedOk, apiVars>>
    /\ UNCHANGED <<uploadForm, authVars, ls, view, busy, me, profileVars, filesList, loadingProfile,
                   loads, saveReq, serverVars, lastSave>>

\* retryExtraction settled: on success the backend has re-run the extraction
\* (status awaiting_review) and the handler awaits refreshList(); a failure is
\* alerted and ends the handler
RetrySettled(op) ==
    /\ op.kind = "retry" /\ op.pc = "retryExtraction"
    /\ \E ok \in BOOLEAN :
          IF ok /\ op.id \in Ids(LiveFiles(serverFiles))
          THEN /\ serverFiles' = WithStatus(serverFiles, op.id, "awaiting_review")
               /\ rowOps' = RowStep(op, "refreshList")
               /\ lastCall' = Call("getFiles", op.tok, token)
               /\ UNCHANGED uploadsView
               /\ Did("other")
          ELSE /\ Finish(op) /\ UNCHANGED <<serverFiles, lastCall>>
               /\ DidUi("other", Failure("retry", TRUE))
    /\ UNCHANGED <<chatView, chatVars, fetches, deletedOk, apiVars>>
    /\ UNCHANGED <<uploadForm, authVars, ls, view, busy, me, profileVars, filesList, loadingProfile,
                   loads, saveReq, serverProfile, lastSave>>

\* View clicked (disabled={loadingMap[f.id]}): openFile(f) sets the row's flag
\* and calls presignFile(f.id, token)
OpenClick ==
    /\ RowsRendered /\ BagCardinality(rowOps) < MaxRowOps
    /\ \E f \in filesList :
          /\ f.id \notin uploadsView.loadingMap
          /\ uploadsView' = [uploadsView EXCEPT !.loadingMap = @ \cup {f.id}]
          /\ rowOps' = rowOps (+) SetToBag({RowOp("open", f.id, "presignFile")})
    /\ lastCall' = Call("presignFile", token, token)
    /\ Did("other")
    /\ UNCHANGED <<chatView, chatVars, fetches, deletedOk, apiVars>>
    /\ UNCHANGED <<uploadForm, authVars, ls, view, busy, me, profileVars, filesList, loadingProfile,
                   loads, saveReq, serverVars, lastSave>>

\* presignFile settled: the presigned url, or on a failure the base url, is
\* opened in a new tab (the failure goes to console.warn); finally the flag
\* is cleared
OpenSettled(op) ==
    /\ op.kind = "open" /\ op.pc = "presignFile"
    /\ \E ok \in BOOLEAN : DidUi("other", IF ok THEN NoUi ELSE Failure("open", FALSE))
    /\ Finish(op)
    /\ UNCHANGED <<chatView, chatVars, fetches, deletedOk, apiVars>>
    /\ UNCHANGED <<uploadForm, authVars, ls, view, busy, me, profileVars, filesList, loadingProfile,
                   loads, saveReq, serverVars, lastCall, lastSave>>

\* Delete clicked (disabled={!!busyMap[f.id]}): nothing when the confirm is
\* cancelled, else deleteFile(f.id, token)
DeleteClick ==
    /\ RowsRendered /\ BagCardinality(rowOps) < MaxRowOps
    /\ \E f \in filesList, ok \in BOOLEAN :
          /\ f.id \notin uploadsView.busyMap
          /\ IF ~Confirmed(ok)
             THEN UNCHANGED <<uploadsView, rowOps, lastCall>>
             ELSE /\ uploadsView' = [uploadsView EXCEPT !.busyMap = @ \cup {f.id}]
                  /\ rowOps' = rowOps (+) SetToBag({RowOp("delete", f.id, "deleteFile")})
                  /\ lastCall' = Call("deleteFile", token, token)
          /\ DidUi("other", [Prompt("delete", ok) EXCEPT !.row = f.id])
          /\ UNCHANGED <<chatView, chatVars, fetches, deletedOk, apiVars>>
          /\ UNCHANGED <<uploadForm, authVars, ls, view, busy, me, profileVars, filesList,
                         loadingProfile, loads, saveReq, serverVars, lastSave>>

\* deleteFile settled.  Resolved: the backend has removed the file, the row
\* is spliced out of the array of the handler's closure and the handler
\* awaits refreshList().  Rejected: alerted, the handler ends; the backend
\* has either kept the file, or removed it and the answer was lost.
DeleteSettled(op) ==
    /\ op.kind = "delete" /\ op.pc = "deleteFile"
    /\ \E outcome \in {"resolved", "rejected", "lost"} :
          IF outcome = "resolved" /\ op.id \in Ids(LiveFiles(serverFiles))
          THEN /\ serverFiles' = WithStatus(serverFiles, op.id, Deleted)
               /\ deletedOk' = deletedOk \cup {op.id}
               /\ filesList' = IF op.attached THEN Spliced(filesList, op.id) ELSE filesList
               /\ rowOps' = RowStep(op, "refreshList")
               /\ lastCall' = Call("getFiles", op.tok, token)
               /\ UNCHANGED uploadsView
               /\ Did("other")
          ELSE /\ serverFiles' = IF outcome = "lost"
                                 THEN WithStatus(serverFiles, op.id, Deleted)
                                 ELSE serverFiles
               /\ Finish(op)
               /\ UNCHANGED <<deletedOk, filesList, lastCall>>
               /\ DidUi("other", Failure("delete", TRUE))
    /\ UNCHANGED <<chatView, chatVars, fetches, apiVars>>
    /\ UNCHANGED <<uploadForm, authVars, ls, view, busy, me, profileVars, loadingProfile, loads,
                   saveReq, serverProfile, lastSave>>

\* a getFiles call whose answer goes to setFilesList without a mounted check
Fetch(by, pc, tok) == [by |-> by, pc |-> pc, tok |-> tok, snap |-> {}]

\* refreshList()'s getFiles settled.  Resolved: 'refresh-files' is
\* dispatched and the handler registered while authenticated starts its own
\* getFiles(token); the files refreshList got are dropped by its callers.
\* Rejected: refreshList returns null.  Then the row handler's finally.
RefreshListDone(op) ==
    /\ op.pc = "refreshList"
    /\ \E ok \in BOOLEAN :
          IF ok /\ isAuthenticated
          THEN /\ BagCardinality(fetches) < MaxFetches
               /\ fetches' = fetches (+) SetToBag({Fetch("event", "getFiles", token)})
               /\ lastCall' = Call("getFiles", token, token)
               /\ Did("other")
          ELSE /\ UNCHANGED <<fetches, lastCall>>
               /\ DidUi("other", IF ok THEN NoUi ELSE Failure("refresh-list", FALSE))
    /\ Finish(op)
    /\ UNCHANGED <<chatView, chatVars, deletedOk, apiVars>>
    /\ UNCHANGED <<uploadForm, authVars, ls, view, busy, me, profileVars, filesList, loadingProfile,
                   loads, saveReq, serverVars, lastSave>>

\* the file ids the backend has not handed out yet
FreeIds == FileIds \ Ids(serverFiles)

\* the file input's and the display-name input's onChange on the home view:
\* setFile(e.target.files?.[0] || null), setFileName(e.target.value)
EditUploadForm ==
    /\ isAuthenticated /\ view = "home"
    /\ \/ \E f \in {Null, "scan.pdf"} :
             f # uploadForm.file /\ uploadForm' = [uploadForm EXCEPT !.file = f]
       \/ \E n \in {"", "Rx"} :
             n # uploadForm.fileName /\ uploadForm' = [uploadForm EXCEPT !.fileName = n]
    /\ Did("other")
    /\ UNCHANGED <<uiVars, chatVars, rowVars, apiVars>>
    /\ UNCHANGED <<authVars, ls, view, busy, me, profileVars, filesList, loadingProfile, loads,
                   saveReq, serverVars, lastCall, lastSave>>

\* HomeView's Upload button (disabled={busy || !canUpload}, canUpload = !!file):
\* doUpload() returns at once without a file, else setBusy(true) and
\* uploadDocument(fd, token)
UploadClick ==
    /\ isAuthenticated /\ view = "home" /\ ~busy
    /\ uploadForm.file # Null
    /\ BagCardinality(fetches) < MaxFetches
    /\ busy' = TRUE
    /\ fetches' = fetches (+) SetToBag({Fetch("upload", "uploadDocument", token)})
    /\ lastCall' = Call("uploadDocument", token, token)
    /\ Did("other")
    /\ UNCHANGED <<uiVars, chatVars, rowOps, deletedOk, apiVars>>
    /\ UNCHANGED <<uploadForm, authVars, ls, view, me, profileVars, filesList, loadingProfile, loads,
                   saveReq, serverVars, lastSave>>

\* a doUpload whose finally leaves the form as it is
FormKeptAfterUpload(form) == form

\* doUpload's finally: setFile(null); setFileName('')
FormAfterUpload(form) == NoUploadForm

\* uploadDocument settled: on success the backend holds a new file with
\* status uploaded; doUpload toasts either way, finally setBusy(false),
\* setFile(null), setFileName(''); the button's handler goes on to
\* getFiles(token)
UploadSettled(q) ==
    /\ q.by = "upload" /\ q.pc = "uploadDocument"
    /\ \E ok \in BOOLEAN :
          /\ serverFiles' = IF ok /\ FreeIds # {}
                         THEN serverFiles \cup
                              {[id |-> CHOOSE i \in FreeIds : \A j \in FreeIds : i <= j,
                                status |-> "uploaded"]}
                         ELSE serverFiles
          /\ DidUi("other", IF ok /\ FreeIds # {} THEN NoUi ELSE Failure("upload", TRUE))
    /\ busy' = FALSE
    /\ uploadForm' = FormAfterUpload(uploadForm)
    /\ fetches' = (fetches (-) SetToBag({q})) (+) SetToBag({[q EXCEPT !.pc = "getFiles"]})
    /\ lastCall' = Call("getFiles", q.tok, token)
    /\ UNCHANGED <<uiVars, chatVars, rowOps, deletedOk, apiVars>>
    /\ UNCHANGED <<authVars, ls, view, me, profileVars, filesList, loadingProfile, loads,
                   saveReq, serverProfile, lastSave>>

\* the backend answers GET /files/ of q with the files it holds now
FetchServed(q) ==
    /\ q.pc = "getFiles"
    /\ fetches' = (fetches (-) SetToBag({q})) (+)
                  SetToBag({[q EXCEPT !.pc = "filesReply", !.snap = LiveFiles(serverFiles)]})
    /\ Did("other")
    /\ UNCHANGED <<uiVars, chatVars, rowOps, deletedOk, apiVars>>
    /\ UNCHANGED <<uploadForm, authVars, ls, view, busy, me, profileVars, filesList, loadingProfile,
                   loads, saveReq, serverVars, lastCall, lastSave>>

\* getFiles of q resolved: setFilesList(files || [])
FetchDone(q) ==
    /\ q.pc = "filesReply"
    /\ SetFilesList(q.snap)
    /\ fetches' = fetches (-) SetToBag({q})
    /\ Did("other")
    /\ UNCHANGED <<uiVars, chatVars, deletedOk, apiVars>>
    /\ UNCHANGED <<uploadForm, authVars, ls, view, busy, me, profileVars, loadingProfile, loads,
                   saveReq, serverVars, lastCall, lastSave>>

\* what GET /files/schedule may answer with: an array of entries, or not an array
ScheduleAnswers == [isArray : BOOLEAN, items : {{}, {"dose"}}]

\* Array.isArray(s) ? s : []
ScheduleOf(s) == IF s.isArray THEN s.items ELSE {}

\* UploadsView's mount effect: getSchedule(token) settled while the view is
\* mounted. setSchedule on success, nothing on failure (catch {}). An answer
\* that arrives after the unmount changes nothing either way.
ScheduleSettled ==
    /\ isAuthenticated /\ view \in {"uploads", "home"}
    /\ uploadsView.schedReq = "pending"
    /\ \/ /\ \E s \in ScheduleAnswers :
                uploadsView' = [uploadsView EXCEPT !.schedule = ScheduleOf(s),
                                                   !.schedReq = "resolved"]
          /\ Did("other")
       \/ /\ uploadsView' = [uploadsView EXCEPT !.schedReq = "rejected"]
          /\ DidUi("other", Failure("schedule", FALSE))
    /\ UNCHANGED <<chatView, chatVars, rowVars, apiVars>>
    /\ UNCHANGED <<uploadForm, authVars, ls, view, busy, me, profileVars, filesList, loadingProfile,
                   loads, saveReq, serverVars, lastCall, lastSave>>

\* a catch that clears the list, as load()'s does
FilesClearedOnFailure(rows) == {}

\* the files list after getFiles rejected in the refresh-files handler or in
\* the Upload button's handler: catch { ignore }
FilesAfterFailedFetch(rows) == rows

\* getFiles of q rejected: ignored
FetchFailed(q) ==
    /\ q.pc \in {"getFiles", "filesReply"}
    /\ fetches' = fetches (-) SetToBag({q})
    /\ filesList' = FilesAfterFailedFetch(filesList)
    /\ DidUi("other", Failure(IF q.by = "event" THEN "refresh-files" ELSE "upload-refresh", FALSE))
    /\ UNCHANGED <<uiVars, chatVars, rowOps, deletedOk, apiVars>>
    /\ UNCHANGED <<uploadForm, authVars, ls, view, busy, me, profileVars, loadingProfile,
                   loads, saveReq, serverVars, lastCall, lastSave>>

-----------------------------------------------------------------------------
(* Specifications *)

\* Session store and view router: login, logout, navigation, view-entry
\* loads, page reloads.
Next ==
    \/ DoLogin
    \/ LoginFailed
    \/ LoginToken
    \/ LoginDone
    \/ DoRegister
    \/ RegisterSettled
    \/ Logout
    \/ Navigate
    \/ OnEdit
    \/ OnCancel
    \/ ToggleChat
    \/ Reload
    \/ \E r \in BagToSet(loads) : LoadMeOk(r)
    \/ \E r \in BagToSet(loads) : LoadMeFailed(r)
    \/ \E r \in BagToSet(loads) : LoadProfileDone(r)
    \/ \E r \in BagToSet(loads) : LoadFilesServed(r)
    \/ \E r \in BagToSet(loads) : LoadFilesOk(r)
    \/ \E r \in BagToSet(loads) : LoadFilesFailed(r)

Spec == Init /\ [][Next]_vars

\* a session persisted by an earlier visit, with view v as the last view
PersistedSession(v) == [token |-> "t1", user |-> "alice", view |-> v]

\* Profile editing: the page is opened on the profile view with a persisted
\* session; the user edits, saves, cancels, navigates and reloads.
InitProfile ==
    /\ Loaded(PersistedSession("profile"), NoProfile, InitialFiles)
    /\ apiAnswer = NoAnswer
    /\ apiResult = NoResult

NextProfile ==
    \/ OnEdit
    \/ OnCancel
    \/ EditField
    \/ SaveProfile
    \/ SaveWritten
    \/ SaveFailed
    \/ SaveRefetched
    \/ Reload
    \/ \E r \in BagToSet(loads) : LoadMeOk(r)
    \/ \E r \in BagToSet(loads) : LoadMeFailed(r)
    \/ \E r \in BagToSet(loads) : LoadProfileDone(r)
    \/ \E r \in BagToSet(loads) : LoadFilesServed(r)
    \/ \E r \in BagToSet(loads) : LoadFilesOk(r)
    \/ \E r \in BagToSet(loads) : LoadFilesFailed(r)

SpecProfile == InitProfile /\ [][NextProfile]_vars

\* Chat: the page is opened on the chat view with a persisted session; the
\* user types, sends, clears, toggles the chat away and back, and reloads.
InitChat ==
    /\ Loaded(PersistedSession("chat"), NoProfile, InitialFiles)
    /\ apiAnswer = NoAnswer
    /\ apiResult = NoResult

NextChat ==
    \/ TypeText
    \/ Send
    \/ \E r \in BagToSet(chatReqs) : ChatSettled(r)
    \/ ClearChat
    \/ ToggleChat
    \/ Reload

SpecChat == InitChat /\ [][NextChat]_vars

\* what the backend may hold when the page is opened: nothing, or one file
StoredFiles == {{}} \cup {{[id |-> 1, status |-> st]} : st \in {"uploaded", "Accepted"}}

\* Uploads list: the page is opened on the uploads view with a persisted
\* session; the user reviews, retries, deletes, navigates and reloads (the
\* upload form has its own specification, SpecUpload).
InitFiles ==
    /\ \E sf \in StoredFiles : Loaded(PersistedSession("uploads"), NoProfile, sf)
    /\ apiAnswer = NoAnswer
    /\ apiResult = NoResult

\* the header's Home and Uploads buttons
NavigateFiles ==
    /\ isAuthenticated
    /\ \E v \in {"home", "uploads"} : v # view /\ Show(v)
    /\ Did("other")
    /\ UNCHANGED keptVars
    /\ UNCHANGED profileVars

NextFiles ==
    \/ NavigateFiles
    \/ Reload
    \/ ReviewClick
    \/ RetryClick
    \/ DeleteClick
    \/ OpenClick
    \/ \E op \in BagToSet(rowOps) : ReviewExtraction(op)
    \/ \E op \in BagToSet(rowOps) : ReviewAccepted(op)
    \/ \E op \in BagToSet(rowOps) : RetrySettled(op)
    \/ \E op \in BagToSet(rowOps) : DeleteSettled(op)
    \/ \E op \in BagToSet(rowOps) : OpenSettled(op)
    \/ \E op \in BagToSet(rowOps) : RefreshListDone(op)
    \/ \E q \in BagToSet(fetches) : FetchServed(q)
    \/ \E q \in BagToSet(fetches) : FetchDone(q)
    \/ \E q \in BagToSet(fetches) : FetchFailed(q)
    \/ \E r \in BagToSet(loads) : LoadFilesServed(r)
    \/ \E r \in BagToSet(loads) : LoadFilesOk(r)
    \/ \E r \in BagToSet(loads) : LoadFilesFailed(r)

SpecFiles == InitFiles /\ [][NextFiles]_vars

\* The upload form: the page is opened as in SpecFiles; the user goes to the
\* home view, fills the form and uploads, and logs out and in again, so that
\* the upload shares the busy flag with login.
NextUpload ==
    \/ NavigateFiles
    \/ EditUploadForm
    \/ UploadClick
    \/ Logout
    \/ DoLogin
    \/ LoginFailed
    \/ LoginToken
    \/ LoginDone
    \/ \E q \in BagToSet(fetches) : UploadSettled(q)
    \/ \E q \in BagToSet(fetches) : FetchServed(q)
    \/ \E q \in BagToSet(fetches) : FetchDone(q)
    \/ \E q \in BagToSet(fetches) : FetchFailed(q)
    \/ \E r \in BagToSet(loads) : LoadFilesServed(r)
    \/ \E r \in BagToSet(loads) : LoadFilesOk(r)
    \/ \E r \in BagToSet(loads) : LoadFilesFailed(r)

SpecUpload == InitFiles /\ [][NextUpload]_vars

\* Background calls of the uploads view: the page is opened as in SpecFiles;
\* the schedule preview settles, the user deletes, navigates and reloads, and
\* the refresh-files event fetches the list.
NextBackground ==
    \/ NavigateFiles
    \/ Reload
    \/ ScheduleSettled
    \/ DeleteClick
    \/ \E op \in BagToSet(rowOps) : DeleteSettled(op)
    \/ \E op \in BagToSet(rowOps) : RefreshListDone(op)
    \/ \E q \in BagToSet(fetches) : FetchServed(q)
    \/ \E q \in BagToSet(fetches) : FetchDone(q)
    \/ \E q \in BagToSet(fetches) : FetchFailed(q)
    \/ \E r \in BagToSet(loads) : LoadFilesServed(r)
    \/ \E r \in BagToSet(loads) : LoadFilesOk(r)
    \/ \E r \in BagToSet(loads) : LoadFilesFailed(r)

SpecBackground == InitFiles /\ [][NextBackground]_vars

\* Review/Accept across remounts: the page is opened as in SpecFiles; the user
\* presses Review/Accept and goes back and forth between Home and Uploads
\* while review handlers are in flight.
NextReviews ==
    \/ NavigateFiles
    \/ ReviewClickWithin(MaxReviews)
    \/ \E op \in BagToSet(rowOps) : ReviewExtraction(op)
    \/ \E op \in BagToSet(rowOps) : ReviewAccepted(op)
    \/ \E r \in BagToSet(loads) : LoadFilesServed(r)
    \/ \E r \in BagToSet(loads) : LoadFilesOk(r)
    \/ \E r \in BagToSet(loads) : LoadFilesFailed(r)

SpecReviews == InitFiles /\ [][NextReviews]_vars

\* Destructive actions: the page is opened as in SpecFiles; the user deletes
\* rows, then opens the chat, sends and clears the transcript.
NextConfirm ==
    \/ ToggleChat
    \/ DeleteClick
    \/ \E op \in BagToSet(rowOps) : DeleteSettled(op)
    \/ \E op \in BagToSet(rowOps) : RefreshListDone(op)
    \/ \E q \in BagToSet(fetches) : FetchServed(q)
    \/ \E q \in BagToSet(fetches) : FetchDone(q)
    \/ \E q \in BagToSet(fetches) : FetchFailed(q)
    \/ \E r \in BagToSet(loads) : LoadFilesServed(r)
    \/ \E r \in BagToSet(loads) : LoadFilesOk(r)
    \/ \E r \in BagToSet(loads) : LoadFilesFailed(r)
    \/ TypeText
    \/ Send
    \/ \E r \in BagToSet(chatReqs) : ChatSettled(r)
    \/ ClearChat

SpecConfirm == InitFiles /\ [][NextConfirm]_vars

\* The API client on its own: the backend's answer is drawn from every status
\* and body, and the function under test is applied to it.
InitApi ==
    /\ Loaded(EmptyStore, NoProfile, InitialFiles)
    /\ apiAnswer \in [status : Statuses, body : Bodies]
    /\ apiResult = NoResult

\* await apiService.getMedicalProfile(token) settles on the answer
CallGetMedicalProfile ==
    /\ apiResult.tag = "none"
    /\ apiResult' = getMedicalProfile(apiAnswer.status, apiAnswer.body)
    /\ UNCHANGED <<uploadForm, authVars, ls, view, busy, me, profileVars, filesList, loadingProfile, loads,
                   saveReq, serverVars, lastOp, lastCall, lastSave, viewShown, lastUi, editHist,
                   uiVars,
                   chatVars, rowVars, apiAnswer>>

NextApi == CallGetMedicalProfile

SpecApi == InitApi /\ [][NextApi]_vars

\* await apiService.login(email, password) settles on the answer
CallLogin ==
    /\ apiResult.tag = "none"
    /\ apiResult' = login(apiAnswer.status, apiAnswer.body)
    /\ UNCHANGED <<uploadForm, authVars, ls, view, busy, me, profileVars, filesList, loadingProfile, loads,
                   saveReq, serverVars, lastOp, lastCall, lastSave, viewShown, lastUi, editHist,
                   uiVars, chatVars, rowVars, apiAnswer>>

\* await apiService.register(payload) settles on the answer
CallRegister ==
    /\ apiResult.tag = "none"
    /\ apiResult' = register(apiAnswer.status, apiAnswer.body)
    /\ UNCHANGED <<uploadForm, authVars, ls, view, busy, me, profileVars, filesList, loadingProfile, loads,
                   saveReq, serverVars, lastOp, lastCall, lastSave, viewShown, lastUi, editHist,
                   uiVars, chatVars, rowVars, apiAnswer>>

\* The failures of the API client: login and register applied to the answer.
NextApiErrors ==
    \/ CallLogin
    \/ CallRegister

SpecApiErrors == InitApi /\ [][NextApiErrors]_vars

\* the Retry handler on the answer of POST /files/{id}/retry: what it alerts
\* when retryExtraction rejects ("alert"), or that it goes on to refreshList
CallRetry ==
    /\ apiResult.tag = "none"
    /\ LET r == retryExtraction(apiAnswer.status, apiAnswer.body)
       IN  apiResult' = IF r.tag = "throw" THEN [r EXCEPT !.tag = "alert", !.msg = RetryAlert(r.msg)]
                        ELSE r
    /\ UNCHANGED <<uploadForm, authVars, ls, view, busy, me, profileVars, filesList, loadingProfile, loads,
                   saveReq, serverVars, lastOp, lastCall, lastSave, viewShown, lastUi, editHist,
                   uiVars, chatVars, rowVars, apiAnswer>>

\* The Retry handler's failure path on its own: every answer of the retry
\* request, and the alert the handler raises on it.
SpecRetry == InitApi /\ [][CallRetry]_vars

-----------------------------------------------------------------------------
(* Claims on the session store and the view router, checked under Spec *)

\* C1: logout always clears both in-memory and persisted session state,
\* whatever the state it is called in: right after logout() the in-memory
\* token and user are null, isAuthenticated is false, and local storage holds
\* neither 'token' nor 'user'.
C1_LogoutClears ==
    lastOp = "logout" =>
        /\ token = Null
        /\ user = Null
        /\ ~isAuthenticated
        /\ ls.token = Absent
        /\ ls.user = Absent

\* logout() has acted while a view-entry load of the session was still running
C1_Witness == lastOp = "logout" /\ loads # EmptyBag

\* C2 (as claimed): once login has succeeded the persisted token equals the
\* in-memory token, and every authorized backend call issued while a session
\* is open carries exactly that session's token as its bearer.
C2_Claim ==
    /\ isAuthenticated => ls.token = token
    /\ lastCall.session # Null => lastCall.bearer = lastCall.session

\* C3 (as claimed): after every successful login, whatever /auth/me answered,
\* re-running the provider's initialization over the resulting local storage
\* restores an authenticated session with the same token.
C3_Claim == lastOp = "login" => InitToken(ls) = token

C11_Claim == isAuthenticated => view \in RenderedViews

\* C12: when the credential exchange of login() fails, the in-memory token
\* and user and the persisted 'token' and 'user' entries are unchanged; when
\* the exchange succeeds but fetching the user fails, login succeeds with the
\* minimal user { email } and persists the token and that email.
C12_LoginFailure ==
    /\ [][loginReq.pc = "login" /\ loginReq'.pc = "idle" =>
              /\ token' = token /\ user' = user
              /\ ls'.token = ls.token /\ ls'.user = ls.user]_vars
    /\ [](lastOp = "login-minimal" =>
              /\ token \in Tokens /\ user \in Emails
              /\ ls.token = token /\ ls.user = user)

\* login() has succeeded although its getMe rejected
C12_Witness == lastOp = "login-minimal" /\ isAuthenticated /\ ls.user = "alice"

\* C13 (as claimed): a page load restores a session exactly when both the
\* 'token' and the 'user' entry are present; then the in-memory token is the
\* persisted token and the user is { email } with the persisted plain string,
\* or the email field of the legacy JSON user object; otherwise the session
\* stays unauthenticated, and the two entries are left as they were.
C13_Claim ==
    lastOp = "reload" =>
        LET both == ls.token # Absent /\ ls.user # Absent
            parsed == JsonParse(ls.user)
        IN  /\ both <=> isAuthenticated
            /\ both => /\ token = ls.token
                       /\ user = IF parsed.isObject THEN parsed.email ELSE ls.user

-----------------------------------------------------------------------------
(* Claims on the API client, checked under SpecApi *)

\* C4: fetching a profile that does not exist (HTTP 404) yields null, not a
\* thrown error; any other answer that is not 2xx (a transport failure
\* included) fails with an error; a 2xx answer yields the parsed body.
C4_ProfileFetch ==
    apiResult.tag # "none" =>
        /\ apiAnswer.status = 404 => apiResult.tag = "null"
        /\ apiAnswer.status # 404 /\ apiAnswer.status \notin 200..299 =>
              apiResult.tag = "throw"
        /\ apiAnswer.status \in 200..299 /\ apiAnswer.body.parses =>
              apiResult.tag = "value" /\ apiResult.value = apiAnswer.body.data

\* a 404 whose body carries an error detail has been answered with null
C4_Witness ==
    /\ apiResult.tag = "null"
    /\ apiAnswer.status = 404
    /\ apiAnswer.body.detail = "No profile"

\* C20 (as claimed): a non-2xx answer makes the API function fail with a
\* message taken from the body: its detail when that is a string, else its
\* error when that is a string, else the status text; so too for register and
\* for a body that is not JSON.
C20_Claim ==
    apiResult.tag # "none" /\ apiAnswer.status # 0 /\ ~ResponseOk(apiAnswer.status) =>
        /\ apiResult.tag = "throw"
        /\ apiResult.msg =
              LET b == apiAnswer.body
              IN  IF b.parses /\ b.detail \notin {Absent, "<list>"} THEN b.detail
                  ELSE IF b.parses /\ b.error # Absent THEN b.error
                  ELSE StatusText(apiAnswer.status)

-----------------------------------------------------------------------------
(* Claims on profile editing, checked under SpecProfile *)

\* C5 (as claimed): whenever Save is triggered, if the server holds no
\* profile the request issued is a create (POST), and if it holds one no
\* create is issued: only a patch (PATCH) of a non-empty set of changed fields,
\* or nothing when no field changed.
C5_Claim ==
    lastSave.method # "unsaved" =>
        IF lastSave.serverHad
        THEN /\ lastSave.method # "POST"
             /\ lastSave.method = "PATCH" => lastSave.keys # {}
        ELSE lastSave.method = "POST"

\* C19 (as claimed): whenever the edit view is shown and the user has not
\* edited a field since it was entered (from the profile view, or as the
\* persisted view after a reload), the form's fields are those of the profile
\* most recently loaded by a successful profile fetch (the empty form when
\* that fetch found no profile).
C19_Claim ==
    /\ isAuthenticated /\ view = "edit-medical"
    /\ editHist.loaded /\ ~editHist.edited
    => profile = IF editHist.fetched = NoProfile THEN defaultProfile ELSE editHist.fetched

-----------------------------------------------------------------------------
(* Claims on the chat, checked under SpecChat *)

\* C8: starting from an empty transcript, one send leaves the user entry
\* first; once its request has settled the transcript holds exactly two
\* entries, the user entry and then one assistant entry: the reply when the
\* request succeeded, the fixed text 'Error: could not get response' when it
\* failed (transport error or non-2xx).  No exception leaves send().
C8_SendAppends ==
    chatHist.sends = 1 /\ ~chatHist.cleared =>
        /\ ~chatHist.escaped
        /\ chatHist.done = 0 => chatMessages = <<Entry("user", chatHist.text)>>
        /\ chatHist.done = 1 =>
              /\ Len(chatMessages) = 2
              /\ chatMessages[1] = Entry("user", chatHist.text)
              /\ chatMessages[2].role = "assistant"
              /\ LET a == chatHist.answer
                 IN  /\ a.status \in 200..299 /\ a.parses =>
                           chatMessages[2].content = a.reply
                     /\ a.status \notin 200..299 =>
                           chatMessages[2].content = "Error: could not get response"

\* a send whose request failed with a non-2xx answer has settled
C8_Witness ==
    /\ chatHist.sends = 1 /\ chatHist.done = 1 /\ ~chatHist.cleared
    /\ chatHist.answer.status = 500
    /\ Len(chatMessages) = 2

\* C9 (as claimed): at most one chat request is outstanding, and no chat
\* request carries an empty text.
C9_Claim ==
    /\ BagCardinality(chatReqs) <= 1
    /\ \A r \in BagToSet(chatReqs) : r.message # ""

-----------------------------------------------------------------------------
(* Claims on the uploads list, checked under SpecFiles *)

\* C6 (as claimed): whenever the uploads rows are on screen, a row whose
\* status is accepted, or whose badge displays accepted, renders neither the
\* Review/Accept nor the Retry control.
C6_Claim ==
    RowsRendered =>
        \A f \in filesList :
            f.status = "accepted" \/ BadgeLabel(f.status) = "accepted" =>
                ~ShowsReview(f) /\ ~ShowsRetry(f)

\* C7 (as claimed): once deleteFile has succeeded for file id F, the files
\* list never contains F again.
C7_Claim == \A f \in filesList : f.id \notin deletedOk

\* C14: every failure of an action the user triggered (login, registration,
\* upload, profile save, review/accept, retry, delete) is caught and its
\* message is put in front of the user; none is dropped silently.
C14_Claim ==
    lastUi.failed \in {"login", "register", "upload", "save", "review", "retry", "delete"} =>
        lastUi.shown

-----------------------------------------------------------------------------
(* Claims on the uploads view's background calls, row handlers and prompts,  *)
(* under SpecBackground, SpecReviews and SpecConfirm                         *)

\* C16: the background calls swallow their errors. In the step in which the
\* schedule-preview fetch of the uploads view fails the schedule is unchanged,
\* in the step in which the files fetch of a refresh-files event fails the
\* files list is unchanged, and neither failure is shown to the user.
C16_BackgroundSilent ==
    [][/\ lastUi'.failed = "schedule" =>
              uploadsView'.schedule = uploadsView.schedule /\ ~lastUi'.shown
       /\ lastUi'.failed = "refresh-files" =>
              filesList' = filesList /\ ~lastUi'.shown]_vars

\* the schedule fetch of the mounted uploads view was rejected, and a
\* refresh-files fetch has just failed while the list holds a row
C16_Witness ==
    /\ uploadsView.schedReq = "rejected"
    /\ lastUi.failed = "refresh-files"
    /\ filesList # {}

\* C17 (as claimed): for every file id and every kind of row action (review,
\* retry, delete) at most one request of that kind for that id is in flight.
C17_Claim ==
    \A id \in FileIds, kind \in {"review", "retry", "delete"} :
        SumCopies({op \in BagToSet(rowOps) :
                      /\ op.kind = kind /\ op.id = id
                      /\ op.pc \in {"getExtraction", "accept", "retryExtraction",
                                    "deleteFile"}}, rowOps) <= 1

\* C18: no destructive action takes effect without confirmation. A delete
\* request for a file starts only in a step in which the user accepted the
\* delete prompt of that row, the transcript is emptied (other than by a page
\* reload) only in a step in which the user accepted the clear prompt, and a
\* step in which either prompt is declined issues no request and leaves the
\* files list, the busy flags and the transcript as they were.
C18_ConfirmFirst ==
    [][/\ \A id \in FileIds :
              LET Deleting(B) ==
                      SumCopies({op \in BagToSet(B) : /\ op.kind = "delete" /\ op.id = id
                                                      /\ op.pc = "deleteFile"}, B)
              IN  Deleting(rowOps') > Deleting(rowOps) =>
                      lastUi' = [Prompt("delete", TRUE) EXCEPT !.row = id]
       /\ chatMessages # <<>> /\ chatMessages' = <<>> /\ lastOp' # "reload" =>
              lastUi' = Prompt("clear", TRUE)
       /\ lastUi'.prompt \in {"delete", "clear"} /\ ~lastUi'.answer =>
              /\ rowOps' = rowOps /\ fetches' = fetches /\ chatReqs' = chatReqs
              /\ lastCall' = lastCall
              /\ filesList' = filesList
              /\ uploadsView' = uploadsView
              /\ chatMessages' = chatMessages]_vars

\* a delete was confirmed and carried out, the transcript was cleared once on
\* confirmation, and the clear prompt has just been declined on a transcript
\* that is still there
C18_Witness ==
    /\ deletedOk # {}
    /\ chatHist.cleared
    /\ lastUi = Prompt("clear", FALSE)
    /\ chatMessages # <<>>

-----------------------------------------------------------------------------
(* Claims on what a session leaves behind, checked under Spec *)

\* C27 (as claimed): after logout no data of the previous session remains in
\* client state: once logout() has run and the effects have settled, the chat
\* transcript, me, the medical profile and the files list hold no value that
\* was obtained under the previous token.
C27_Claim ==
    lastOp = "logout" =>
        /\ me = Null
        /\ profile = defaultProfile
        /\ filesList = {}
        /\ chatMessages = <<>>

-----------------------------------------------------------------------------
(* Claims on the view-entry load and later navigation, checked under Spec *)

\* C23 (as claimed): results arriving after a view has navigated away are
\* discarded: once the view or the token has changed (the load effect's
\* cleanup has run), no response or failure of a fetch started by the earlier
\* load (getMe, getMedicalProfile, getFiles) modifies me, profile,
\* originalProfile, profileExists, filesList or loadingProfile.
C23_Claim ==
    [][(/\ lastOp' = "other"
        /\ \E r \in BagToSet(loads) :
              ~r.mounted /\ CopiesIn(r, loads') < CopiesIn(r, loads))
       => UNCHANGED <<me, profile, originalProfile, profileExists, filesList,
                      loadingProfile>>]_vars

\* C29 (as claimed): loadingProfile is true from the moment a view-entry load
\* starts until that same load finishes: whenever loadingProfile is false no
\* view-entry load for the current view is in flight, under every interleaving
\* of an earlier load's completion with a later load.
C29_Claim ==
    ~loadingProfile => \A r \in BagToSet(loads) : ~r.mounted

-----------------------------------------------------------------------------
(* Claims on the chat transcript's order, checked under SpecChat *)

\* C28 (as claimed): the chat transcript is append-only and paired: every
\* assistant entry is preceded by the user entry it answers, so in every
\* prefix the assistant entries never outnumber the user entries, and entries
\* are only ever added at the end except on a confirmed Clear; also when Clear
\* is confirmed, or the chat view is left and re-entered, while a reply is
\* outstanding.
C28_Claim ==
    [][/\ \A n \in 1..Len(chatMessages') :
             Cardinality({k \in 1..n : chatMessages'[k].role = "assistant"})
                 <= Cardinality({k \in 1..n : chatMessages'[k].role = "user"})
       /\ \/ lastUi' = Prompt("clear", TRUE)
          \/ lastOp' = "reload"
          \/ /\ Len(chatMessages') >= Len(chatMessages)
             /\ SubSeq(chatMessages', 1, Len(chatMessages)) = chatMessages]_vars

-----------------------------------------------------------------------------
(* Claims on a row's status over time, checked under SpecFiles *)

\* C22 (as claimed): the status of a file as observed by the client is
\* monotonic, and only an explicit retry moves it back: once a row is shown
\* as accepted, no later state of the files list shows that row with an
\* earlier status while the backend still holds it as accepted, under every
\* interleaving of the accept with files-list fetches in flight.
C22_Claim ==
    [][\A f \in filesList : \A g \in filesList' :
          (/\ f.status = "accepted"
           /\ g.id = f.id
           /\ [id |-> g.id, status |-> "accepted"] \in serverFiles')
          => g.status = "accepted"]_vars

-----------------------------------------------------------------------------
(* Claims on the Retry handler's failure path, checked under SpecRetry *)

\* C25 (as claimed, its failure part): when the retry request fails, the
\* handler surfaces the server's error message verbatim, a cooldown failure
\* included: what is alerted is the message the request failed with.
C25_Claim ==
    apiResult.tag = "alert" =>
        apiResult.msg = retryExtraction(apiAnswer.status, apiAnswer.body).msg

-----------------------------------------------------------------------------
(* Claims on the upload form, checked under SpecUpload *)

\* C21: the upload form only submits when a file is chosen and no operation
\* is busy. A step that issues an upload request starts with a file selected
\* and busy false, and sets busy; busy is set as long as an upload request is
\* in flight; and the step in which the upload settles, with success or with
\* failure, clears the file selection and the display name and issues the
\* re-fetch of the files list.
C21_UploadForm ==
    [][LET Uploading(B) == SumCopies({q \in BagToSet(B) : q.pc = "uploadDocument"}, B)
       IN  /\ Uploading(fetches') > Uploading(fetches) =>
                 uploadForm.file # Null /\ ~busy /\ busy'
           /\ Uploading(fetches') > 0 => busy'
           /\ Uploading(fetches') < Uploading(fetches) =>
                 /\ uploadForm' = NoUploadForm
                 /\ \E q \in BagToSet(fetches') : q.by = "upload" /\ q.pc = "getFiles"]_vars

\* an upload sent with a display name has failed: the form is empty again and
\* the files list is being fetched
C21_Witness ==
    /\ lastUi = Failure("upload", TRUE)
    /\ uploadForm = NoUploadForm
    /\ ~busy
    /\ \E q \in BagToSet(fetches) : q.by = "upload" /\ q.pc = "getFiles"

-----------------------------------------------------------------------------
(* Claims on what entering a view fetches, checked under Spec *)

-----------------------------------------------------------------------------
(* Claims on re-issued requests, checked under SpecFiles *)

-----------------------------------------------------------------------------
(* Claims on the busy flags, checked under SpecFiles *)

=============================================================================
